---- MODULE Spec2Model ----
(***************************************************************************)
(* Journal Tracker (src/app.py): entry normalisation, the journal file,    *)
(* follow-up selection, the daily mood map, streaks and switches, and the  *)
(* Streamlit script run that ties them together.                           *)
(*                                                                         *)
(* Python values are records tagged with their type.  A str is a sequence  *)
(* of atoms: single characters for dates and timestamps (which the code    *)
(* slices, parses and compares), whole words for the free text and one     *)
(* atom for a mood label or a follow-up prompt (which the code only tests  *)
(* for equality and emptiness).  A dict is a function from its keys.       *)
(***************************************************************************)
EXTENDS Integers, Sequences, FiniteSets, TLC

VARIABLES
    file,           \* the journal document of the key: [exists, text]
    last_followup,  \* st.session_state["last_followup"]
    clock,          \* seconds elapsed since StartInstant
    page,           \* what the last script run rendered
    saves,          \* entries saved so far
    pc,             \* position of the function-level specifications
    arg,            \* their input
    ret             \* their output

vars == <<file, last_followup, clock, page, saves, pc, arg, ret>>

(***************************************************************************)
(* Bounds                                                                  *)
(***************************************************************************)
MaxClock == 1       \* seconds the clock may advance
MaxSaves == 2       \* entries saved in one behaviour
MaxRaw == 2         \* raw records in a document handed to normalize_entries
MaxDaily == 3       \* entries in a list handed to daily_moods
NumDays == 6        \* consecutive calendar days a date->mood map may cover
PoolSize == 2       \* prompts kept of each FOLLOWUPS pool

(***************************************************************************)
(* Python values                                                           *)
(***************************************************************************)
PyNone == [ty |-> "NoneType"]
PyStr(s) == [ty |-> "str", s |-> s]
PyInt(n) == [ty |-> "int", n |-> n]

IsStr(v) == v.ty = "str"

Truthy(v) ==
    CASE v.ty = "NoneType" -> FALSE
      [] v.ty = "str" -> v.s # <<>>
      [] v.ty = "int" -> v.n # 0

IsDict(e) == "ty" \notin DOMAIN e

Get(e, k) == IF k \in DOMAIN e THEN e[k] ELSE PyNone

GetDefault(e, k, default) == IF k \in DOMAIN e THEN e[k] ELSE default

Put(e, k, v) == [x \in DOMAIN e \cup {k} |-> IF x = k THEN v ELSE e[x]]

Range(s) == {s[i] : i \in DOMAIN s}

\* Code points of the characters that occur, in ascending order.
CharOrder ==
    <<" ", "-", "/", "0", "1", "2", "3", "4", "5", "6", "7", "8", "9", ":",
      "a", "d", "e", "n", "o", "t">>

Ord(c) == CHOOSE i \in DOMAIN CharOrder : CharOrder[i] = c

\* Python's str comparison: by code point at the first difference, a proper
\* prefix being smaller.
StrLt(a, b) ==
    LET n == IF Len(a) < Len(b) THEN Len(a) ELSE Len(b)
        diff == {i \in 1..n : a[i] # b[i]}
    IN  IF diff = {}
        THEN Len(a) < Len(b)
        ELSE LET i == CHOOSE j \in diff : \A k \in diff : j <= k
             IN  Ord(a[i]) < Ord(b[i])

StrGe(a, b) == ~StrLt(a, b)

(***************************************************************************)
(* datetime.date and datetime.datetime                                     *)
(***************************************************************************)
Digits == <<"0", "1", "2", "3", "4", "5", "6", "7", "8", "9">>

IsDigit(c) == \E i \in DOMAIN Digits : Digits[i] = c

DigitVal(c) == (CHOOSE i \in DOMAIN Digits : Digits[i] = c) - 1

\* int() of a sequence of decimal digits.
RECURSIVE Num(_)
Num(ds) ==
    IF ds = <<>> THEN 0
    ELSE (Num(SubSeq(ds, 1, Len(ds) - 1)) * 10) + DigitVal(ds[Len(ds)])

Pad2(n) == <<Digits[((n \div 10) % 10) + 1], Digits[(n % 10) + 1]>>

Pad4(n) == Pad2(n \div 100) \o Pad2(n % 100)

Date(y, m, d) == [y |-> y, m |-> m, d |-> d]

IsLeap(y) == y % 4 = 0 /\ (y % 100 # 0 \/ y % 400 = 0)

DaysInMonth(y, m) ==
    IF m = 2 THEN (IF IsLeap(y) THEN 29 ELSE 28)
    ELSE IF m \in {4, 6, 9, 11} THEN 30 ELSE 31

RECURSIVE DaysBeforeMonth(_, _)
DaysBeforeMonth(y, m) ==
    IF m = 1 THEN 0 ELSE DaysBeforeMonth(y, m - 1) + DaysInMonth(y, m - 1)

\* date.toordinal(): day 1 is 0001-01-01.
toordinal(dt) ==
    LET p == dt.y - 1
    IN  (p * 365) + (p \div 4) - (p \div 100) + (p \div 400)
        + DaysBeforeMonth(dt.y, dt.m) + dt.d

\* (a - b).days
DaysBetween(a, b) == toordinal(a) - toordinal(b)

DateLt(a, b) ==
    \/ a.y < b.y
    \/ a.y = b.y /\ a.m < b.m
    \/ a.y = b.y /\ a.m = b.m /\ a.d < b.d

\* date.isoformat()
isoformat(dt) == PyStr(Pad4(dt.y) \o <<"-">> \o Pad2(dt.m) \o <<"-">> \o Pad2(dt.d))

\* Whether date.fromisoformat(v) returns: v is a str of the form YYYY-MM-DD
\* naming a day of the calendar.  Anything else raises.
IsISODate(v) ==
    /\ IsStr(v)
    /\ Len(v.s) = 10
    /\ v.s[5] = "-" /\ v.s[8] = "-"
    /\ \A i \in {1, 2, 3, 4, 6, 7, 9, 10} : IsDigit(v.s[i])
    /\ LET y == Num(<<v.s[1], v.s[2], v.s[3], v.s[4]>>)
           m == Num(<<v.s[6], v.s[7]>>)
           d == Num(<<v.s[9], v.s[10]>>)
       IN  y >= 1 /\ m \in 1..12 /\ d >= 1 /\ d <= DaysInMonth(y, m)

\* date.fromisoformat(v), where it returns.
fromisoformat(v) ==
    Date(Num(<<v.s[1], v.s[2], v.s[3], v.s[4]>>),
         Num(<<v.s[6], v.s[7]>>),
         Num(<<v.s[9], v.s[10]>>))

NextDay(dt) ==
    IF dt.d < DaysInMonth(dt.y, dt.m) THEN Date(dt.y, dt.m, dt.d + 1)
    ELSE IF dt.m < 12 THEN Date(dt.y, dt.m + 1, 1)
    ELSE Date(dt.y + 1, 1, 1)

RECURSIVE DayAfter(_, _)
DayAfter(dt, n) == IF n = 0 THEN dt ELSE DayAfter(NextDay(dt), n - 1)

\* A datetime: a date and the second of the day.
StartInstant == [date |-> Date(2023, 12, 31), sod |-> 86399]

NextSecond(t) ==
    IF t.sod < 86399 THEN [t EXCEPT !.sod = t.sod + 1]
    ELSE [date |-> NextDay(t.date), sod |-> 0]

RECURSIVE InstantAt(_)
InstantAt(c) == IF c = 0 THEN StartInstant ELSE NextSecond(InstantAt(c - 1))

\* datetime.strftime("%Y-%m-%d %H:%M:%S")
strftime(t) ==
    PyStr(isoformat(t.date).s \o <<" ">> \o Pad2(t.sod \div 3600) \o <<":">>
          \o Pad2((t.sod \div 60) % 60) \o <<":">> \o Pad2(t.sod % 60))

(***************************************************************************)
(* Moods and follow-up pools                                               *)
(***************************************************************************)
HighEnergy == PyStr(<<"high energy">>)
LowEnergy == PyStr(<<"low energy">>)
Neutral == PyStr(<<"neutral">>)

Moods == {HighEnergy, LowEnergy, Neutral}

(***************************************************************************)
(* normalize_entries                                                       *)
(***************************************************************************)
\* normalize_entries taking only the legacy timestamp key for created_at, so
\* that a record without it is stamped with the clock at every call.
NormalizeEntryTimestampOnly(e, now, today) ==
    LET first == Get(e, "timestamp")
        created_at == IF ~Truthy(first) THEN strftime(now) ELSE first
        e1 == Put(e, "created_at", created_at)
        given == Get(e1, "entry_date")
        entry_date ==
            IF ~Truthy(given)
            THEN IF IsStr(created_at) /\ Len(created_at.s) >= 10
                 THEN PyStr(SubSeq(created_at.s, 1, 10))
                 ELSE isoformat(today)
            ELSE given
        e2 == Put(e1, "entry_date", entry_date)
        e3 == Put(e2, "mood", GetDefault(e2, "mood", Neutral))
        e4 == Put(e3, "text", GetDefault(e3, "text", PyStr(<<>>)))
    IN  IF "followup" \notin DOMAIN e4 THEN Put(e4, "followup", PyNone) ELSE e4

\* The body of the loop for one dict e; now is datetime.now() and today is
\* date.today() at the call.
NormalizeEntry(e, now, today) ==
    LET first == IF Truthy(Get(e, "created_at"))
                 THEN Get(e, "created_at")
                 ELSE Get(e, "timestamp")
        created_at == IF ~Truthy(first) THEN strftime(now) ELSE first
        e1 == Put(e, "created_at", created_at)
        given == Get(e1, "entry_date")
        entry_date ==
            IF ~Truthy(given)
            THEN IF IsStr(created_at) /\ Len(created_at.s) >= 10
                 THEN PyStr(SubSeq(created_at.s, 1, 10))
                 ELSE isoformat(today)
            ELSE given
        e2 == Put(e1, "entry_date", entry_date)
        e3 == Put(e2, "mood", GetDefault(e2, "mood", Neutral))
        e4 == Put(e3, "text", GetDefault(e3, "text", PyStr(<<>>)))
    IN  IF "followup" \notin DOMAIN e4 THEN Put(e4, "followup", PyNone) ELSE e4

RECURSIVE normalize_entries(_, _, _)
normalize_entries(entries, now, today) ==
    IF entries = <<>> THEN <<>>
    ELSE LET e == Head(entries)
             rest == normalize_entries(Tail(entries), now, today)
         IN  IF ~IsDict(e) THEN rest
             ELSE <<NormalizeEntry(e, now, today)>> \o rest

(***************************************************************************)
(* daily_moods                                                             *)
(***************************************************************************)
\* daily_moods with the created_at comparison dropped: the entry later in
\* the list always replaces the date's record.
RECURSIVE DailyBestLastWins(_, _, _)
DailyBestLastWins(entries, i, best) ==
    IF i > Len(entries) THEN best
    ELSE LET e == entries[i]
             d == Get(e, "entry_date")
         IN  IF ~Truthy(d) THEN DailyBestLastWins(entries, i + 1, best)
             ELSE DailyBestLastWins(entries, i + 1,
                      [x \in DOMAIN best \cup {d} |->
                          IF x = d
                          THEN <<GetDefault(e, "created_at", PyStr(<<>>)),
                                 GetDefault(e, "mood", Neutral)>>
                          ELSE best[x]])

\* daily_moods with > in place of >=: of two entries of a date with equal
\* created_at the earlier one is kept.
RECURSIVE DailyBestStrict(_, _, _)
DailyBestStrict(entries, i, best) ==
    IF i > Len(entries) THEN best
    ELSE LET e == entries[i]
             d == Get(e, "entry_date")
             created_at == GetDefault(e, "created_at", PyStr(<<>>))
             mood == GetDefault(e, "mood", Neutral)
         IN  IF ~Truthy(d) THEN DailyBestStrict(entries, i + 1, best)
             ELSE IF d \notin DOMAIN best \/ StrLt(best[d][1].s, created_at.s)
             THEN DailyBestStrict(entries, i + 1,
                      [x \in DOMAIN best \cup {d} |->
                          IF x = d THEN <<created_at, mood>> ELSE best[x]])
             ELSE DailyBestStrict(entries, i + 1, best)

\* The loop over entries[i..]; best maps a date to <<created_at, mood>>.
RECURSIVE DailyBest(_, _, _)
DailyBest(entries, i, best) ==
    IF i > Len(entries) THEN best
    ELSE LET e == entries[i]
             d == Get(e, "entry_date")
             created_at == GetDefault(e, "created_at", PyStr(<<>>))
             mood == GetDefault(e, "mood", Neutral)
         IN  IF ~Truthy(d) THEN DailyBest(entries, i + 1, best)
             ELSE IF d \notin DOMAIN best \/ StrGe(created_at.s, best[d][1].s)
             THEN DailyBest(entries, i + 1,
                      [x \in DOMAIN best \cup {d} |->
                          IF x = d THEN <<created_at, mood>> ELSE best[x]])
             ELSE DailyBest(entries, i + 1, best)

daily_moods(entries) ==
    LET none == [x \in {} |-> <<>>]
        best == DailyBest(entries, 1, none)
    IN  [d \in DOMAIN best |-> best[d][2]]

(***************************************************************************)
(* compute_streaks and compute_switches                                    *)
(***************************************************************************)
\* sorted() of a set of dates.
RECURSIVE SortedDates(_)
SortedDates(S) ==
    IF S = {} THEN <<>>
    ELSE LET m == CHOOSE a \in S : \A b \in S : ~DateLt(b, a)
         IN  <<m>> \o SortedDates(S \ {m})

\* sorted() of a set of strs.
RECURSIVE SortedStrs(_)
SortedStrs(S) ==
    IF S = {} THEN <<>>
    ELSE LET m == CHOOSE a \in S : \A b \in S : ~StrLt(b.s, a.s)
         IN  <<m>> \o SortedStrs(S \ {m})

\* date.fromisoformat raises on one of the keys.
StreaksRaise(day_to_mood) == \E d \in DOMAIN day_to_mood : ~IsISODate(d)

\* compute_streaks with the one-day-gap test dropped: a run continues across
\* missing days.
RECURSIVE StreakLoopNoGap(_, _, _, _)
StreakLoopNoGap(day_to_mood, days, i, s) ==
    IF i > Len(days)
    THEN Append(s.streaks,
                <<isoformat(s.start), isoformat(s.prev), s.current_mood, s.length>>)
    ELSE LET d == days[i]
             mood == day_to_mood[isoformat(d)]
         IN  IF mood = s.current_mood
             THEN StreakLoopNoGap(day_to_mood, days, i + 1,
                      [s EXCEPT !.length = s.length + 1, !.prev = d])
             ELSE StreakLoopNoGap(day_to_mood, days, i + 1,
                      [streaks |-> Append(s.streaks,
                           <<isoformat(s.start), isoformat(s.prev),
                             s.current_mood, s.length>>),
                       start |-> d, prev |-> d, current_mood |-> mood,
                       length |-> 1])

\* The loop over days[i..], with the locals of compute_streaks.
RECURSIVE StreakLoop(_, _, _, _)
StreakLoop(day_to_mood, days, i, s) ==
    IF i > Len(days)
    THEN Append(s.streaks,
                <<isoformat(s.start), isoformat(s.prev), s.current_mood, s.length>>)
    ELSE LET d == days[i]
             mood == day_to_mood[isoformat(d)]
         IN  IF DaysBetween(d, s.prev) = 1 /\ mood = s.current_mood
             THEN StreakLoop(day_to_mood, days, i + 1,
                      [s EXCEPT !.length = s.length + 1, !.prev = d])
             ELSE StreakLoop(day_to_mood, days, i + 1,
                      [streaks |-> Append(s.streaks,
                           <<isoformat(s.start), isoformat(s.prev),
                             s.current_mood, s.length>>),
                       start |-> d, prev |-> d, current_mood |-> mood,
                       length |-> 1])

compute_streaks(day_to_mood) ==
    IF DOMAIN day_to_mood = {} THEN <<>>
    ELSE LET days == SortedDates({fromisoformat(d) : d \in DOMAIN day_to_mood})
         IN  StreakLoop(day_to_mood, days, 2,
                 [streaks |-> <<>>, start |-> days[1], prev |-> days[1],
                  current_mood |-> day_to_mood[isoformat(days[1])],
                  length |-> 1])

\* compute_switches with a neutral day forgetting the previous mood instead
\* of being skipped.
RECURSIVE SwitchLoopNeutralResets(_, _, _, _, _)
SwitchLoopNeutralResets(day_to_mood, days_sorted, i, prev_mood, switches) ==
    IF i > Len(days_sorted) THEN switches
    ELSE LET d == days_sorted[i]
             mood == day_to_mood[d]
         IN  IF mood = Neutral
             THEN SwitchLoopNeutralResets(day_to_mood, days_sorted, i + 1,
                      PyNone, switches)
             ELSE IF prev_mood = PyNone
             THEN SwitchLoopNeutralResets(day_to_mood, days_sorted, i + 1,
                      mood, switches)
             ELSE IF mood # prev_mood
             THEN SwitchLoopNeutralResets(day_to_mood, days_sorted, i + 1, mood,
                      Append(switches, <<d, prev_mood, mood>>))
             ELSE SwitchLoopNeutralResets(day_to_mood, days_sorted, i + 1,
                      prev_mood, switches)

\* The loop over days_sorted[i..]; prev_mood is PyNone until the first
\* non-neutral day.
RECURSIVE SwitchLoop(_, _, _, _, _)
SwitchLoop(day_to_mood, days_sorted, i, prev_mood, switches) ==
    IF i > Len(days_sorted) THEN switches
    ELSE LET d == days_sorted[i]
             mood == day_to_mood[d]
         IN  IF mood = Neutral
             THEN SwitchLoop(day_to_mood, days_sorted, i + 1, prev_mood, switches)
             ELSE IF prev_mood = PyNone
             THEN SwitchLoop(day_to_mood, days_sorted, i + 1, mood, switches)
             ELSE IF mood # prev_mood
             THEN SwitchLoop(day_to_mood, days_sorted, i + 1, mood,
                      Append(switches, <<d, prev_mood, mood>>))
             ELSE SwitchLoop(day_to_mood, days_sorted, i + 1, prev_mood, switches)

compute_switches(day_to_mood) ==
    IF DOMAIN day_to_mood = {} THEN <<>>
    ELSE SwitchLoop(day_to_mood, SortedStrs(DOMAIN day_to_mood), 1, PyNone, <<>>)

(***************************************************************************)
(* The journal document: json.dumps / json.loads                           *)
(***************************************************************************)
\* The text of a document is a sequence of tokens: the brackets of the
\* list and, between them, one token per item.
Tok(c) == [tok |-> c]

Obj(e) == [obj |-> e]

dumps(entries) ==
    <<Tok("[")>> \o [i \in 1..Len(entries) |-> Obj(entries[i])] \o <<Tok("]")>>

\* json.loads(text) returns a list.
ParsesToList(text) ==
    /\ Len(text) >= 2
    /\ text[1] = Tok("[")
    /\ text[Len(text)] = Tok("]")
    /\ \A i \in 2..(Len(text) - 1) : "obj" \in DOMAIN text[i]

\* json.loads(text) returns a value that is no list.
ParsesToOther(text) == Len(text) = 1 /\ "obj" \in DOMAIN text[1]

loads(text) == [i \in 1..(Len(text) - 2) |-> text[i + 1].obj]

load_entries(f, now, today) ==
    IF f.exists /\ ParsesToList(f.text)
    THEN normalize_entries(loads(f.text), now, today)
    ELSE <<>>

\* The file after data_file.write_text(json.dumps(entries)) has returned.
save_entries(entries) == [exists |-> TRUE, text |-> dumps(entries)]

(***************************************************************************)
(* classify_mood and pick_followup                                         *)
(***************************************************************************)
HIGH_ENERGY ==
    {"energized", "productive", "excited", "motivated", "great", "amazing",
     "happy", "confident", "focused", "uplifted", "optimistic", "restless",
     "wired", "invincible", "talkative", "racing thoughts", "euphoric",
     "impulsive"}

LOW_ENERGY ==
    {"tired", "exhausted", "down", "sad", "low", "unmotivated", "stressed",
     "anxious", "overwhelmed", "hopeless", "burnt", "burned", "drained",
     "numb", "empty", "isolated", "worthless", "no energy",
     "can't get out of bed"}

\* str.lower() of a word.
Lower(w) == IF w = "Happy" THEN "happy" ELSE w

\* A keyword counts when it is one of the words of the text.
classify_mood(text) ==
    LET t == {Lower(text[i]) : i \in DOMAIN text}
        high == Cardinality({w \in HIGH_ENERGY : w \in t})
        low == Cardinality({w \in LOW_ENERGY : w \in t})
    IN  IF high > low /\ high > 0 THEN HighEnergy
        ELSE IF low > high /\ low > 0 THEN LowEnergy
        ELSE Neutral

\* str.strip()
RECURSIVE strip(_)
strip(text) ==
    IF text = <<>> THEN <<>>
    ELSE IF Head(text) = " " THEN strip(Tail(text))
    ELSE IF text[Len(text)] = " " THEN strip(SubSeq(text, 1, Len(text) - 1))
    ELSE text

FOLLOWUPS(mood) ==
    CASE mood = HighEnergy ->
           <<"What helped you feel energized today?",
             "What did you do that you'd like to repeat tomorrow?",
             "Were there any moments that felt especially meaningful?",
             "What was your sleep like recently, and did it affect your energy today?",
             "Did your energy feel steady or spiky today? What do you think influenced that?",
             "What boundaries or pacing might help you keep this energy sustainable?",
             "If you could channel this energy into one small priority tomorrow, what would it be?",
             "What support (people, routines, environment) helped you feel this way?",
             "Did you notice any impulsive urges today? How did you respond to them?",
             "What would a 'balanced version' of today look like?">>
      [] mood = LowEnergy ->
           <<"What felt hardest today, and what felt even slightly easier?",
             "Did anything help your mood or energy, even a little?",
             "What kind of support or rest would feel helpful right now?",
             "Were there specific triggers or stressors that stood out today?",
             "What did your body seem to need today (sleep, food, movement, quiet)?",
             "If you could do one gentle thing for yourself tomorrow, what would it be?",
             "Who (or what) helped you feel even slightly less alone today?",
             "What thoughts kept showing up today, and how did you respond to them?",
             "What would you want a close friend to say to you about today?",
             "What is one task you can simplify, postpone, or ask for help with?">>
      [] mood = Neutral ->
           <<"What stood out to you today?",
             "If today had a theme, what would it be?",
             "What do you want to pay attention to tomorrow?",
             "What drained you today, and what restored you?",
             "What emotion showed up the most today, even if it was subtle?",
             "What's one thing you're grateful for from today (big or small)?",
             "What's one thing you wish had gone differently today?",
             "What did you learn about yourself today?",
             "What would make tomorrow feel 10% better?",
             "What pattern are you noticing this week?">>

\* The prompts of the mood's pool, the first PoolSize of them.
Pool(mood) ==
    LET all == FOLLOWUPS(mood)
        n == IF PoolSize < Len(all) THEN PoolSize ELSE Len(all)
    IN  {PyStr(<<all[i]>>) : i \in 1..n}

RecentN == 5

\* recent[-5:]: the last RecentN follow-ups stored in the journal.
RecentLastN(entries) ==
    LET Shown(e) == Truthy(Get(e, "followup")) /\ IsStr(Get(e, "followup"))
        recent == SelectSeq(entries, Shown)
        from == IF Len(recent) > RecentN THEN Len(recent) - RecentN + 1 ELSE 1
    IN  {recent[i].followup : i \in from..Len(recent)}

\* pick_followup with the session's last prompt avoided only while an unused
\* prompt is left: the fallback is the whole pool.
FollowupCandidatesPoolFallback(mood, entries, last_session) ==
    LET pool == Pool(mood)
        recent_last_n == RecentLastN(entries)
        candidates == {q \in pool : q # last_session /\ q \notin recent_last_n}
    IN  IF candidates = {} THEN pool ELSE candidates

\* The candidates random.choice draws from in pick_followup.
FollowupCandidates(mood, entries, last_session) ==
    LET pool == Pool(mood)
        recent_last_n == RecentLastN(entries)
        candidates == {q \in pool : q # last_session /\ q \notin recent_last_n}
        others == {q \in pool : q # last_session}
    IN  IF candidates = {}
        THEN IF others # {} THEN others ELSE pool
        ELSE candidates

(***************************************************************************)
(* The script run: one user interaction                                    *)
(***************************************************************************)
NoFile == [exists |-> FALSE, text |-> <<>>]

NoPage == [status |-> "none"]

\* The clock advances by a second.
Tick ==
    /\ clock < MaxClock
    /\ clock' = clock + 1
    /\ UNCHANGED <<file, last_followup, page, saves, pc, arg, ret>>

\* Date and timestamp strings of other shapes than this version writes.
Chars(w) ==
    CASE w = "slash"   -> <<"3", "1", "/", "1", "2", "/", "2", "0", "2", "3",
                            " ", "1", "0", ":", "0", "0">>
      [] w = "word"    -> <<"n", "o", "t", "-", "a", "-", "d", "a", "t", "e">>
      [] w = "year"    -> <<"2", "0", "2", "3">>
      [] w = "feb30"   -> <<"2", "0", "2", "3", "-", "0", "2", "-", "3", "0">>

OldStamp == strftime([date |-> Date(2023, 12, 30), sod |-> 36000])

\* The calendar, streak and switch sections and the report, computed from the
\* entries of the run.  date.fromisoformat raising ends the run in an error.
RenderPage(entries) ==
    LET day_to_mood == daily_moods(entries)
    IN  IF StreaksRaise(day_to_mood)
        THEN [status |-> "error", day_to_mood |-> day_to_mood]
        ELSE [status |-> "ok", day_to_mood |-> day_to_mood,
              streaks |-> compute_streaks(day_to_mood),
              switches |-> compute_switches(day_to_mood)]

Now == InstantAt(clock)

Today == InstantAt(clock).date

\* What the text area may hold.
Texts == {<<" ">>, <<"Happy", " ">>, <<"walk">>}

\* What the date input may hold: a day up to today.
EntryDays == {d \in {Date(2023, 12, 31), Date(2024, 1, 1)} : ~DateLt(Today, d)}

\* entries.append(entry) with the entry at the front instead.
PrependEntry(entries, entry) == <<entry>> \o entries

\* entries.append(entry)
AppendEntry(entries, entry) == Append(entries, entry)

\* The entry the save handler builds.
NewEntry(entry_day, text, mood, followup) ==
    [entry_date |-> isoformat(entry_day),
     created_at |-> strftime(Now),
     text |-> PyStr(strip(text)),
     mood |-> mood,
     followup |-> followup]

\* A run with no button pressed.
View ==
    /\ page' = RenderPage(load_entries(file, Now, Today))
    /\ UNCHANGED <<file, last_followup, clock, saves, pc, arg, ret>>

\* "Clear this journal's entries": the file is rewritten and the script runs
\* again.
Clear ==
    /\ file' = save_entries(<<>>)
    /\ page' = RenderPage(load_entries(file', Now, Today))
    /\ UNCHANGED <<last_followup, clock, saves, pc, arg, ret>>

\* "Save entry" with a blank text: a warning, nothing saved.
BlankSave(text) ==
    /\ strip(text) = <<>>
    /\ page' = RenderPage(load_entries(file, Now, Today))
    /\ UNCHANGED <<file, last_followup, clock, saves, pc, arg, ret>>

\* "Save entry".
Save(text, entry_day) ==
    /\ strip(text) # <<>>
    /\ saves < MaxSaves
    /\ LET entries == load_entries(file, Now, Today)
           mood == classify_mood(text)
       IN  \E followup \in FollowupCandidates(mood, entries, last_followup) :
               LET saved == AppendEntry(entries,
                                NewEntry(entry_day, text, mood, followup))
               IN  /\ last_followup' = followup
                   /\ file' = save_entries(saved)
                   /\ page' = RenderPage(saved)
    /\ saves' = saves + 1
    /\ UNCHANGED <<clock, pc, arg, ret>>

\* The browser session ends and another begins: st.session_state is new and
\* the script runs.
NewSession ==
    /\ last_followup' = PyNone
    /\ page' = RenderPage(load_entries(file, Now, Today))
    /\ UNCHANGED <<file, clock, saves, pc, arg, ret>>

\* A journal this version wrote in an earlier session: two entries with the
\* first two prompts of the high-energy pool.
OwnFile ==
    save_entries(
        [i \in 1..2 |->
            [entry_date |-> isoformat(Date(2023, 12, 30)),
             created_at |-> OldStamp,
             text |-> PyStr(<<"Happy">>),
             mood |-> HighEnergy,
             followup |-> PyStr(<<FOLLOWUPS(HighEnergy)[i]>>)]])

\* Journal files of other origins: written by an older version (timestamp in
\* place of created_at, keys missing), edited by hand (an item that is no
\* dict, another date format), cut short, or holding no list.
LegacyFiles ==
    { save_entries(<<[timestamp |-> OldStamp, text |-> PyStr(<<"tired">>)]>>),
      save_entries(<<PyInt(7),
                     [created_at |-> PyStr(Chars("slash")),
                      text |-> PyStr(<<"walk">>), mood |-> Neutral]>>),
      [exists |-> TRUE, text |-> <<Tok("[")>>],
      [exists |-> TRUE, text |-> <<Obj([text |-> PyStr(<<"walk">>)])>>] }

InitApp ==
    /\ last_followup = PyNone
    /\ clock = 0
    /\ page = NoPage
    /\ saves = 0
    /\ pc = "idle"
    /\ arg = <<>>
    /\ ret = <<>>

Init == InitApp /\ file \in {NoFile, OwnFile} \cup LegacyFiles

InitFresh == InitApp /\ file = NoFile

Next ==
    \/ View
    \/ Clear
    \/ \E text \in Texts : BlankSave(text)
    \/ \E text \in Texts, entry_day \in EntryDays : Save(text, entry_day)
    \/ NewSession
    \/ Tick

Spec == Init /\ [][Next]_vars

SpecFresh == InitFresh /\ [][Next]_vars

(***************************************************************************)
(* Path.write_text step by step: open() truncates the file, the text is    *)
(* written piece by piece, and the write may fail or the process may be    *)
(* stopped before the file is closed.                                      *)
(***************************************************************************)
\* The list json.loads returns for the stored document, if it returns one.
Stored(f) == IF f.exists /\ ParsesToList(f.text) THEN loads(f.text) ELSE <<>>

\* The save handler up to the open() of write_text.
OpenForSave(text, entry_day) ==
    /\ pc = "idle"
    /\ strip(text) # <<>>
    /\ saves < MaxSaves
    /\ LET entries == load_entries(file, Now, Today)
           mood == classify_mood(text)
       IN  \E followup \in FollowupCandidates(mood, entries, last_followup) :
               LET saved == AppendEntry(entries,
                                NewEntry(entry_day, text, mood, followup))
               IN  /\ last_followup' = followup
                   /\ arg' = dumps(saved)
                   /\ ret' = [old |-> Stored(file), new |-> saved]
    /\ file' = [exists |-> TRUE, text |-> <<>>]
    /\ pc' = "writing"
    /\ saves' = saves + 1
    /\ UNCHANGED <<clock, page>>

\* The clear handler up to the open() of write_text.
OpenForClear ==
    /\ pc = "idle"
    /\ arg' = dumps(<<>>)
    /\ ret' = [old |-> Stored(file), new |-> <<>>]
    /\ file' = [exists |-> TRUE, text |-> <<>>]
    /\ pc' = "writing"
    /\ UNCHANGED <<last_followup, clock, page, saves>>

\* The next piece of the text reaches the file.
WriteChunk ==
    /\ pc = "writing"
    /\ arg # <<>>
    /\ file' = [file EXCEPT !.text = Append(file.text, Head(arg))]
    /\ arg' = Tail(arg)
    /\ UNCHANGED <<last_followup, clock, page, saves, pc, ret>>

\* The text is written and the file closed; the run goes on to render.
CloseFile ==
    /\ pc = "writing"
    /\ arg = <<>>
    /\ pc' = "idle"
    /\ page' = RenderPage(ret.new)
    /\ UNCHANGED <<file, last_followup, clock, saves, arg, ret>>

\* The write fails (disk full, I/O error) or the process is stopped.
Interrupt ==
    /\ pc = "writing"
    /\ pc' = "idle"
    /\ arg' = <<>>
    /\ page' = NoPage
    /\ UNCHANGED <<file, last_followup, clock, saves, ret>>

InitWrite ==
    /\ file = OwnFile
    /\ last_followup = PyNone
    /\ clock = 0
    /\ page = NoPage
    /\ saves = 0
    /\ pc = "idle"
    /\ arg = <<>>
    /\ ret = [old |-> Stored(OwnFile), new |-> Stored(OwnFile)]

NextWrite ==
    \/ \E text \in Texts, entry_day \in EntryDays : OpenForSave(text, entry_day)
    \/ OpenForClear
    \/ WriteChunk
    \/ CloseFile
    \/ Interrupt
    \/ Tick

SpecWrite == InitWrite /\ [][NextWrite]_vars

(***************************************************************************)
(* Function-level specifications: the input is drawn at Init and the       *)
(* action applies the function.  The journal and the session stay idle.    *)
(***************************************************************************)
Idle ==
    /\ file = NoFile
    /\ last_followup = PyNone
    /\ clock = 0
    /\ page = NoPage
    /\ saves = 0

SeqsUpTo(S, n) == UNION {[1..k -> S] : k \in 0..n}

\* --- daily_moods ---------------------------------------------------------
DailyDates == {isoformat(Date(2023, 12, 31)), isoformat(Date(2024, 1, 1))}

DailyStamps == {strftime(InstantAt(c)) : c \in 0..MaxClock}

DailyEntries ==
    {[entry_date |-> d, created_at |-> c, mood |-> m,
      text |-> PyStr(<<"walk">>), followup |-> PyNone] :
        d \in DailyDates, c \in DailyStamps, m \in {HighEnergy, Neutral}}

InitDaily ==
    /\ Idle
    /\ pc = "call"
    /\ arg \in SeqsUpTo(DailyEntries, MaxDaily)
    /\ ret = <<>>

CallDailyMoods ==
    /\ pc = "call"
    /\ ret' = daily_moods(arg)
    /\ pc' = "daily"
    /\ UNCHANGED <<file, last_followup, clock, page, saves, arg>>

NextDaily == CallDailyMoods

SpecDaily == InitDaily /\ [][NextDaily]_vars

\* --- compute_streaks, compute_switches -------------------------------------
FirstDay == Date(2024, 2, 26)

PatternDays == {isoformat(DayAfter(FirstDay, k)) : k \in 0..(NumDays - 1)}

DayMaps == UNION {[D -> Moods] : D \in SUBSET PatternDays}

InitPatterns ==
    /\ Idle
    /\ pc = "call"
    /\ arg \in DayMaps
    /\ ret = <<>>

CallStreaks ==
    /\ pc = "call"
    /\ ret' = compute_streaks(arg)
    /\ pc' = "streaks"
    /\ UNCHANGED <<file, last_followup, clock, page, saves, arg>>

CallSwitches ==
    /\ pc = "call"
    /\ ret' = compute_switches(arg)
    /\ pc' = "switches"
    /\ UNCHANGED <<file, last_followup, clock, page, saves, arg>>

NextPatterns == CallStreaks \/ CallSwitches

SpecPatterns == InitPatterns /\ [][NextPatterns]_vars

\* --- normalize_entries -------------------------------------------------------
\* Records as json.loads may return them from a journal document: written by
\* this version, written by an older one (timestamp in place of created_at,
\* keys missing), or edited by hand (null values, other date formats,
\* numbers).
RawRecords ==
    { [entry_date |-> isoformat(Date(2023, 12, 30)), created_at |-> OldStamp,
       text |-> PyStr(<<"happy">>), mood |-> HighEnergy,
       followup |-> PyStr(<<"What helped you feel energized today?">>)],
      [timestamp |-> OldStamp, text |-> PyStr(<<"tired">>)],
      [created_at |-> PyStr(<<>>), timestamp |-> PyStr(<<>>),
       mood |-> LowEnergy],
      [text |-> PyStr(<<"walk">>)],
      [created_at |-> PyStr(Chars("slash")), text |-> PyStr(<<"walk">>),
       mood |-> Neutral],
      [entry_date |-> PyStr(Chars("word")), created_at |-> OldStamp,
       text |-> PyStr(<<"walk">>), mood |-> Neutral],
      [entry_date |-> PyStr(Chars("feb30")), created_at |-> OldStamp,
       text |-> PyStr(<<"happy">>), mood |-> HighEnergy, followup |-> PyNone],
      [entry_date |-> PyNone, created_at |-> PyStr(Chars("year")),
       text |-> PyStr(<<"tired">>), mood |-> LowEnergy],
      [created_at |-> PyInt(5), text |-> PyStr(<<"walk">>)],
      [entry_date |-> isoformat(Date(2023, 12, 30)), created_at |-> OldStamp,
       text |-> PyNone, mood |-> PyNone, followup |-> PyNone] }

\* Items of the document that are no dicts.
RawOthers == {PyInt(7), PyStr(<<"walk">>), PyNone}

InitNormalize ==
    /\ Idle
    /\ pc = "call"
    /\ arg \in SeqsUpTo(RawRecords \cup RawOthers, MaxRaw)
    /\ ret = <<>>

CallNormalize ==
    /\ pc = "call"
    /\ ret' = normalize_entries(arg, InstantAt(clock), InstantAt(clock).date)
    /\ pc' = "once"
    /\ UNCHANGED <<file, last_followup, clock, page, saves, arg>>

\* normalize_entries applied to the list it returned.
CallNormalizeAgain ==
    /\ pc = "once"
    /\ arg' = ret
    /\ ret' = normalize_entries(ret, InstantAt(clock), InstantAt(clock).date)
    /\ pc' = "twice"
    /\ UNCHANGED <<file, last_followup, clock, page, saves>>

\* The clock runs until the second call.
NextNormalize == CallNormalize \/ CallNormalizeAgain \/ (pc # "twice" /\ Tick)

SpecNormalize == InitNormalize /\ [][NextNormalize]_vars

(***************************************************************************)
(* Properties of daily_moods, compute_streaks and compute_switches         *)
(***************************************************************************)
\* C1: daily_moods returns one record for each entry_date of the list and
\* for no other key, and the mood of a date is the mood of an entry of that
\* date whose created_at is lexicographically >= the created_at of every
\* entry of the same date.
C1_DailyLatest ==
    pc = "daily" =>
        /\ DOMAIN ret = {arg[i].entry_date : i \in DOMAIN arg}
        /\ \A d \in DOMAIN ret :
              \E i \in DOMAIN arg :
                  /\ arg[i].entry_date = d
                  /\ arg[i].mood = ret[d]
                  /\ \A j \in DOMAIN arg :
                        arg[j].entry_date = d =>
                            ~StrLt(arg[i].created_at.s, arg[j].created_at.s)

\* An earlier entry of the list carries the larger created_at and another
\* mood than a later entry of the same date, and its mood is the one kept.
C1_Witness ==
    /\ pc = "daily"
    /\ \E i, j \in DOMAIN arg :
          /\ i < j
          /\ arg[i].entry_date = arg[j].entry_date
          /\ StrLt(arg[j].created_at.s, arg[i].created_at.s)
          /\ arg[i].mood # arg[j].mood
          /\ ret[arg[i].entry_date] = arg[i].mood

PatternDay(k) == isoformat(DayAfter(FirstDay, k - 1))

MapOf(moods) == [d \in {PatternDay(k) : k \in DOMAIN moods} |->
                    moods[CHOOSE k \in DOMAIN moods : PatternDay(k) = d]]

StreakExample ==
    MapOf(<<HighEnergy, HighEnergy, LowEnergy, LowEnergy, LowEnergy, Neutral>>)

SwitchExample ==
    MapOf(<<HighEnergy, Neutral, LowEnergy, LowEnergy, Neutral, HighEnergy>>)

\* The streak s covers the date d.
Covers(s, d) ==
    /\ ~DateLt(fromisoformat(d), fromisoformat(s[1]))
    /\ ~DateLt(fromisoformat(s[2]), fromisoformat(d))

\* C2: compute_streaks returns, in ascending date order, the maximal runs of
\* consecutive calendar dates with one mood: each streak spans
\* (end - start) + 1 days of the map, all of its mood; every date of the map
\* lies in exactly one streak; successive streaks differ in mood or are more
\* than one day apart; and H,H,L,L,L,N on consecutive dates gives the
\* lengths 2, 3, 1.
C2_Streaks ==
    pc = "streaks" =>
        /\ \A k \in DOMAIN ret :
              LET a == fromisoformat(ret[k][1])
                  b == fromisoformat(ret[k][2])
              IN  /\ ret[k][4] >= 1
                  /\ ret[k][4] = DaysBetween(b, a) + 1
                  /\ \A n \in 0..(ret[k][4] - 1) :
                        /\ isoformat(DayAfter(a, n)) \in DOMAIN arg
                        /\ arg[isoformat(DayAfter(a, n))] = ret[k][3]
        /\ \A d \in DOMAIN arg :
              Cardinality({k \in DOMAIN ret : Covers(ret[k], d)}) = 1
        /\ \A k \in 1..(Len(ret) - 1) :
              /\ DateLt(fromisoformat(ret[k][2]), fromisoformat(ret[k + 1][1]))
              /\ \/ ret[k][3] # ret[k + 1][3]
                 \/ DaysBetween(fromisoformat(ret[k + 1][1]),
                                fromisoformat(ret[k][2])) > 1
        /\ arg = StreakExample =>
              ret = << <<PatternDay(1), PatternDay(2), HighEnergy, 2>>,
                       <<PatternDay(3), PatternDay(5), LowEnergy, 3>>,
                       <<PatternDay(6), PatternDay(6), Neutral, 1>> >>

\* The streaks of a map with a missing day between two days of one mood, a
\* run of two days and a single day have been computed.
C2_Witness ==
    /\ pc = "streaks"
    /\ DOMAIN arg = {PatternDay(1), PatternDay(3), PatternDay(4), PatternDay(6)}
    /\ arg[PatternDay(1)] = arg[PatternDay(3)]
    /\ arg[PatternDay(3)] = arg[PatternDay(4)]
    /\ Len(ret) = 3
    /\ ret[2][4] = 2

\* The non-neutral dates a, b of the map m with no non-neutral date between.
AdjacentNonNeutral(m, a, b) ==
    /\ m[a] # Neutral /\ m[b] # Neutral
    /\ DateLt(fromisoformat(a), fromisoformat(b))
    /\ ~\E c \in DOMAIN m :
          /\ m[c] # Neutral
          /\ DateLt(fromisoformat(a), fromisoformat(c))
          /\ DateLt(fromisoformat(c), fromisoformat(b))

\* C3: compute_switches returns, in ascending date order, exactly one switch
\* (date of the later day, from, to) for each two non-neutral days of
\* different moods with no non-neutral day between them, whatever neutral or
\* missing days lie between; no switch is dated on a neutral day; and
\* H,N,L,L,N,H yields H->L on the first L date and L->H on the last date.
C3_Switches ==
    pc = "switches" =>
        /\ Range(ret) =
              {<<b, arg[a], arg[b]>> : <<a, b>> \in
                  {p \in (DOMAIN arg) \X (DOMAIN arg) :
                      AdjacentNonNeutral(arg, p[1], p[2]) /\ arg[p[1]] # arg[p[2]]}}
        /\ \A k \in 1..(Len(ret) - 1) :
              DateLt(fromisoformat(ret[k][1]), fromisoformat(ret[k + 1][1]))
        /\ \A k \in DOMAIN ret : arg[ret[k][1]] # Neutral
        /\ arg = SwitchExample =>
              ret = << <<PatternDay(3), HighEnergy, LowEnergy>>,
                       <<PatternDay(6), LowEnergy, HighEnergy>> >>

\* The switches of H,N,L,L,N,H have been computed: two of them, each across
\* a neutral day.
C3_Witness ==
    /\ pc = "switches"
    /\ arg = SwitchExample
    /\ Len(ret) = 2

(***************************************************************************)
(* Properties of normalize_entries                                         *)
(***************************************************************************)
\* C4: after normalize_entries every entry_date parses as an ISO date, so
\* no unparseable date reaches compute_streaks.
C4_DatesParse ==
    pc = "once" =>
        /\ \A i \in DOMAIN ret : IsISODate(ret[i].entry_date)
        /\ ~StreaksRaise(daily_moods(ret))

\* C5: after normalize_entries entry_date, created_at, mood and text are
\* not None, also when the raw record carries the key with a null.
C5_NoNulls ==
    pc = "once" =>
        \A i \in DOMAIN ret :
            /\ ret[i].entry_date # PyNone
            /\ ret[i].created_at # PyNone
            /\ ret[i].mood # PyNone
            /\ ret[i].text # PyNone

\* C9: normalize_entries applied to a list it returned gives a list of the
\* same length with the same entries, field for field.
C9_Idempotent ==
    pc = "twice" =>
        /\ Len(ret) = Len(arg)
        /\ \A i \in DOMAIN ret :
              /\ DOMAIN ret[i] = DOMAIN arg[i]
              /\ \A k \in DOMAIN ret[i] : ret[i][k] = arg[i][k]

\* A record whose created_at and entry_date the first pass filled in from
\* the clock has been normalized a second time, at a later second of the
\* next day.
C9_Witness ==
    /\ pc = "twice"
    /\ clock > 0
    /\ \E i \in DOMAIN ret :
          /\ ret[i].created_at = strftime(StartInstant)
          /\ ret[i].entry_date = isoformat(StartInstant.date)
          /\ ret[i].followup = PyNone

(***************************************************************************)
(* Properties of the journal over script runs                              *)
(***************************************************************************)
\* C6: at every point during and after a write the stored document is
\* complete and holds either the previously saved list or the new list.
C6_AtomicReplace ==
    /\ file.exists
    /\ ParsesToList(file.text)
    /\ loads(file.text) = ret.old \/ loads(file.text) = ret.new

CanonicalKeys == {"created_at", "entry_date", "mood", "text", "followup"}

\* The stored record n is the record o with its fields kept, but for an
\* empty or null created_at or entry_date filled in and missing keys added.
Backfilled(o, n) ==
    /\ DOMAIN n = DOMAIN o \cup CanonicalKeys
    /\ Truthy(n.created_at) /\ Truthy(n.entry_date)
    /\ \A k \in DOMAIN o :
          \/ n[k] = o[k]
          \/ k \in {"created_at", "entry_date"} /\ ~Truthy(o[k])

LastShown(entries) ==
    LET shown == {i \in DOMAIN entries :
                     /\ "followup" \in DOMAIN entries[i]
                     /\ entries[i].followup.ty = "str"
                     /\ entries[i].followup.s # <<>>}
    IN  {entries[i].followup :
            i \in {j \in shown : Cardinality({k \in shown : k > j}) < RecentN}}

C10_LastSavedWins ==
    page.status # "none" =>
        LET S == Stored(file)
            dates == {S[i].entry_date : i \in DOMAIN S}
        IN  /\ DOMAIN page.day_to_mood = dates
            /\ \A d \in dates :
                  LET last == CHOOSE i \in DOMAIN S :
                                  /\ S[i].entry_date = d
                                  /\ \A j \in DOMAIN S :
                                        S[j].entry_date = d => j <= i
                  IN  page.day_to_mood[d] = S[last].mood

\* Two entries of one date saved within the same second with different
\* moods: the calendar shows the mood of the later one.
C10_Witness ==
    /\ page.status = "ok"
    /\ LET S == Stored(file)
       IN  /\ Len(S) = 2
           /\ S[1].entry_date = S[2].entry_date
           /\ S[1].created_at = S[2].created_at
           /\ S[1].mood # S[2].mood
           /\ page.day_to_mood[S[2].entry_date] = S[2].mood

====
